---- MODULE Spec2Model ----
(***************************************************************************)
(* Model of the indicator/signal engine (src/src/technical_analysis.py),   *)
(* the scoring engine (src/src/stock_screener.py) and the orchestration    *)
(* loop of run() (src/main.py).                                            *)
(*                                                                         *)
(* Numbers.  Python floats are modelled as tagged values                   *)
(*     [k |-> "num", v |-> n]   a finite number, n a scaled integer        *)
(*     [k |-> "nan", v |-> 0]   float("nan"): every comparison is False    *)
(*     [k |-> "none", v |-> 0]  Python None                                *)
(* Fixed-point scales (all exact for the values the model draws):          *)
(*     oscillator (RSI)        1        (points 0..100)                    *)
(*     score                   1/10     (points; round(x, 1) resolution)   *)
(*     band position           1/100                                       *)
(*     momentum ratio          1/10000                                     *)
(*     price, resistance       1        (currency units)                   *)
(*     target                  1/100    (price * 105, resistance * 103)    *)
(*     volatility, atr, std    1/100000 (see VolScale)                     *)
(*     target_low/target_high  1/(100 * VolScale)                          *)
(*     expected_return_pct     1/100    (percent; round(x, 2) resolution)  *)
(* A dict is a function whose DOMAIN is its set of keys, so that           *)
(* dict.get(key, default) keeps its meaning.                               *)
(***************************************************************************)
EXTENDS Integers, Sequences, FiniteSets, TLC

VARIABLES
    pc,               \* position of the caller: see the actions
    screener,         \* the StockScreener instance: weights, sectors, vol_window_map
    mode,             \* the horizon string handed to run / score_universe
    hist_data,        \* run(): sequence of [sym, df] returned by fetch_batch
    idx,              \* run(): number of hist_data items the TA loop has consumed
    ta_results,       \* sequence of [sym, df, signals] (insertion-ordered dict)
    ta_out,           \* outcome of the latest add_indicators / generate_signals
    scoring_results   \* what score_universe returned, or how it raised

vars == <<pc, screener, mode, hist_data, idx, ta_results, ta_out, scoring_results>>

----------------------------------------------------------------------------
(* Tagged float values and Python's comparison / truthiness rules.         *)

Num(n) == [k |-> "num", v |-> n]
NaN == [k |-> "nan", v |-> 0]
None == [k |-> "none", v |-> 0]

IsNum(x) == x.k = "num"
IsNone(x) == x.k = "none"
IsNaN(x) == x.k = "nan"

\* x < c, x > c for a float x (NaN compares False) and a finite constant c.
Lt(x, c) == IsNum(x) /\ x.v < c
Gt(x, c) == IsNum(x) /\ x.v > c

\* a > b on two floats; a missing average defaults to inf, which nothing exceeds
GtVal(a, b) == IsNum(a) /\ IsNum(b) /\ a.v > b.v

\* bool(x) for x a float or None: None and 0 are falsy, NaN is truthy.
Truthy(x) == (IsNum(x) /\ x.v # 0) \/ IsNaN(x)

\* dict.get(key, default)
Get(d, key, default) == IF key \in DOMAIN d THEN d[key] ELSE default

Max(a, b) == IF a >= b THEN a ELSE b
Min(a, b) == IF a <= b THEN a ELSE b
Abs(a) == IF a < 0 THEN -a ELSE a

\* a / b rounded to the nearest integer, ties to even (Python's round), b # 0.
RoundDiv(a, b) ==
    LET n == IF b < 0 THEN -a ELSE a
        d == Abs(b)
        q == n \div d
        r == n % d
    IN  IF 2 * r < d THEN q
        ELSE IF 2 * r > d THEN q + 1
        ELSE IF q % 2 = 0 THEN q ELSE q + 1

----------------------------------------------------------------------------
(* stock_screener.py: constants                                            *)

VolScale == 10 ^ 5

\* str.lower() on the horizon strings the model draws.
Lower(s) ==
    CASE s = "WEEKLY" -> "weekly"
      [] s = "Yearly" -> "yearly"
      [] s = "Hourly" -> "hourly"
      [] OTHER -> s

\* Mutant of DEFAULT_VOL_WINDOW: the quarterly window of the module docstring.
DEFAULT_VOL_WINDOW_docstring ==
    [daily |-> 20, weekly |-> 40, monthly |-> 60, quarterly |-> 120,
     biquarterly |-> 120, yearly |-> 240]

DEFAULT_VOL_WINDOW ==
    [daily |-> 20, weekly |-> 40, monthly |-> 60, quarterly |-> 60,
     biquarterly |-> 120, yearly |-> 240]

\* Mutant of weights: the volume and band-position weights exchanged.
weights_exchanged ==
    [rsi |-> 20, macd |-> 20, ma_trend |-> 20, volume |-> 10,
     momentum |-> 15, bollinger |-> 15]

weights ==
    [rsi |-> 20, macd |-> 20, ma_trend |-> 20, volume |-> 15,
     momentum |-> 15, bollinger |-> 10]

\* Sector map read from config/stocks_list.json by _load_config (an input).
ConfigSectors == [S1 |-> "IT", S2 |-> "Banking"]

\* StockScreener.__init__ (run() passes no vol_window_map).
StockScreenerInit ==
    [weights |-> weights, sectors |-> ConfigSectors,
     vol_window_map |-> DEFAULT_VOL_WINDOW]

----------------------------------------------------------------------------
(* Indicator frames.  A frame df is None (NoFrame) or a record             *)
(*   rows      len(df)                                                     *)
(*   cols      the set of column names                                     *)
(*   last      the last row: column name -> value                          *)
(*   prev      the row before it (the last row again when rows = 1)        *)
(*   atr       AverageTrueRange(window=14).average_true_range().iloc[-1],  *)
(*             in 1/1000 currency units (ta library, a function of df)     *)
(*   n_ret     len(df["Close"].pct_change().dropna())                      *)
(*   roll_std  window -> returns.rolling(window, min_periods=5).std()      *)
(*             .iloc[-1]   (pandas, a function of df)                      *)
(*   full_std  returns.std()                                               *)
(*   vol_avg   df["Volume"].rolling(20, min_periods=5).mean().iloc[-1]     *)
(***************************************************************************)

NoFrame == [kind |-> "none"]

IsFrame(df) == df.kind = "frame"

\* df is None or df.empty
NoneOrEmpty(df) == ~IsFrame(df) \/ df.rows = 0

\* df[col].iloc[-1]
Last(df, col) == df.last[col]

\* StockScreener._compute_atr_pct; the result is in 1/VolScale.
compute_atr_pct(df) ==
    IF NoneOrEmpty(df) \/ ~({"High", "Low", "Close"} \subseteq df.cols) THEN 0
    ELSE LET atr_latest == df.atr
             price == Last(df, "Close")
         IN  IF IsNum(price) /\ price.v <= 0 THEN 0
             \* max(0.0, nan) is 0.0: nan / x and x / nan are nan
             ELSE IF ~IsNum(price) \/ ~IsNum(atr_latest) THEN 0
             ELSE Max(0, (atr_latest.v * (VolScale \div 1000)) \div price.v)

\* StockScreener._compute_return_std; the result is in 1/VolScale.
compute_return_std(df, window) ==
    IF NoneOrEmpty(df) \/ "Close" \notin df.cols THEN 0
    ELSE IF df.n_ret = 0 THEN 0
    ELSE LET w == IF window < 2 THEN 2 ELSE window
             rolled == df.roll_std[w]
             val == IF IsNaN(rolled) THEN df.full_std ELSE rolled
         IN  IF IsNaN(val) THEN 0 ELSE val.v

\* Mutant of volatility_for_mode: the smaller estimator instead of the larger.
volatility_for_mode_min(self, df, m) ==
    LET vol_window == Get(self.vol_window_map, m, Get(DEFAULT_VOL_WINDOW, m, 20))
        atr_pct == compute_atr_pct(df)
        ret_std == compute_return_std(df, vol_window)
    IN  [vol |-> Min(atr_pct, ret_std), atr_pct |-> atr_pct,
         ret_std |-> ret_std, vol_window |-> vol_window]

\* StockScreener._volatility_for_mode
volatility_for_mode(self, df, m) ==
    LET vol_window == Get(self.vol_window_map, m, Get(DEFAULT_VOL_WINDOW, m, 20))
        atr_pct == compute_atr_pct(df)
        ret_std == compute_return_std(df, vol_window)
    IN  [vol |-> Max(atr_pct, ret_std), atr_pct |-> atr_pct,
         ret_std |-> ret_std, vol_window |-> vol_window]

\* "; ".join(parts)
RECURSIVE Join(_)
Join(parts) ==
    IF Len(parts) = 0 THEN ""
    ELSE IF Len(parts) = 1 THEN parts[1]
    ELSE parts[1] \o "; " \o Join(Tail(parts))

\* parts[:n]
Prefix(s, n) == SubSeq(s, 1, Min(n, Len(s)))

\* StockScreener._rationale_from_signals
rationale_from_signals(signals) ==
    LET macd == Get(signals, "macd_signal", "<none>")
        rsi_sig == Get(signals, "rsi_signal", "<none>")
        trend == Get(signals, "trend", "<none>")
        vol_surge == Get(signals, "volume_surge", FALSE)
        parts ==
            (IF macd = "bullish_crossover" THEN <<"MACD bullish crossover">> ELSE <<>>)
            \o (IF rsi_sig \in {"oversold", "strong"} THEN <<"RSI " \o rsi_sig>> ELSE <<>>)
            \o (IF trend \notin {"<none>", "", "unknown"} THEN <<"Trend: " \o trend>> ELSE <<>>)
            \o (IF vol_surge THEN <<"Volume surge">> ELSE <<>>)
    IN  IF parts = <<>> THEN "No strong technical signals"
        ELSE Join(Prefix(parts, 2))

\* Mutant of risk_rating: `and` for `or` in the Medium test.
risk_rating_and(score, vol) ==
    IF score < 400 \/ 100 * vol > 8 * VolScale THEN "High"
    ELSE IF 100 * vol > 4 * VolScale /\ score < 650 THEN "Medium"
    ELSE "Low"

\* StockScreener._risk_rating (score in 1/10 points, vol in 1/VolScale)
risk_rating(score, vol) ==
    IF score < 400 \/ 100 * vol > 8 * VolScale THEN "High"
    ELSE IF 100 * vol > 4 * VolScale \/ score < 650 THEN "Medium"
    ELSE "Low"

----------------------------------------------------------------------------
(* StockScreener.score_universe: the per-symbol body.                      *)
(* Sub-scores are in tenths (1.0 is 10), so sub-score * weight is the      *)
(* contribution in 1/10 points; every product the code forms is a multiple *)
(* of 0.1, which round(final_score, 1) returns unchanged.                  *)

\* Mutant of rsi_subscore: the sub-scores of the two middle bands exchanged.
rsi_subscore_swapped(signals) ==
    LET rsi == Get(signals, "rsi", Num(50))
    IN  IF Lt(rsi, 30) THEN 10
        ELSE IF Lt(rsi, 45) THEN 8
        ELSE IF Lt(rsi, 55) THEN 3
        ELSE IF Lt(rsi, 70) THEN 6
        ELSE 1

rsi_subscore(signals) ==
    LET rsi == Get(signals, "rsi", Num(50))
    IN  IF Lt(rsi, 30) THEN 10
        ELSE IF Lt(rsi, 45) THEN 8
        ELSE IF Lt(rsi, 55) THEN 6
        ELSE IF Lt(rsi, 70) THEN 3
        ELSE 1

macd_subscore(signals) ==
    LET macd_sig == Get(signals, "macd_signal", "neutral")
    IN  IF macd_sig = "bullish_crossover" THEN 10
        ELSE IF macd_sig = "bearish_crossover" THEN 0
        ELSE 4

trend_subscore(signals) ==
    LET trend == Get(signals, "trend", "unknown")
    IN  IF trend = "up" THEN 10
        ELSE IF trend = "down" THEN 0
        ELSE 4

\* Mutant of volume_subscore: no surge earns nothing.
volume_subscore_unscored(signals) ==
    IF Get(signals, "volume_surge", FALSE) THEN 10 ELSE 0

\* (1.0 if signals.get("volume_surge") else 0.3), in tenths
volume_subscore(signals) ==
    IF Get(signals, "volume_surge", FALSE) THEN 10 ELSE 3

\* df[col].iloc[-1] if (df is not None and col in df.columns and len(df) > 0) else 0.0
LastOrZero(df, col) ==
    IF IsFrame(df) /\ col \in df.cols /\ df.rows > 0 THEN Last(df, col) ELSE Num(0)

\* Mutant of NanMean2: np.mean over the ratios with NaN replaced by 0.
NanMean2_zero_filled(a, b) ==
    (IF IsNum(a) THEN a.v ELSE 0) + (IF IsNum(b) THEN b.v ELSE 0)

\* 2 * np.nanmean([a, b]), with the all-NaN result replaced by 0.0
NanMean2(a, b) ==
    IF IsNum(a) /\ IsNum(b) THEN a.v + b.v
    ELSE IF IsNum(a) THEN 2 * a.v
    ELSE IF IsNum(b) THEN 2 * b.v
    ELSE 0

\* mom is in 1/10000, so mom > 0.05 is 2 * mom > 1000
momentum_subscore(df) ==
    LET mom2 == NanMean2(LastOrZero(df, "mom_5"), LastOrZero(df, "mom_20"))
    IN  IF mom2 > 1000 THEN 10
        ELSE IF mom2 > 200 THEN 7
        ELSE IF mom2 > -200 THEN 4
        ELSE 1

\* signals.get("bb_pos", 0.5) or 0.5, in 1/100
BbPos(signals) ==
    LET got == Get(signals, "bb_pos", Num(50))
    IN  IF Truthy(got) THEN got ELSE Num(50)

bollinger_subscore(signals) ==
    LET bbpos == BbPos(signals)
    IN  IF Lt(bbpos, 20) THEN 10
        ELSE IF Lt(bbpos, 40) THEN 8
        ELSE IF Lt(bbpos, 60) THEN 5
        ELSE IF Lt(bbpos, 80) THEN 2
        ELSE 0

\* the running `score` after the six `score += ...` statements, in 1/10 points
weighted_sum(self, signals, df) ==
      rsi_subscore(signals) * self.weights.rsi
    + macd_subscore(signals) * self.weights.macd
    + trend_subscore(signals) * self.weights.ma_trend
    + volume_subscore(signals) * self.weights.volume
    + momentum_subscore(df) * self.weights.momentum
    + bollinger_subscore(signals) * self.weights.bollinger

\* Mutant of final_score: the clamp added to the running score, as in the
\* `score += ...` statements before it.
final_score_added(score) == score + Max(0, Min(1000, score))

\* final_score = max(0.0, min(100.0, score))
final_score(score) == Max(0, Min(1000, score))

\* last_price: float(...) of None raises TypeError, which the code catches
last_price_of(signals, df) ==
    LET p == Get(signals, "price", None)
    IN  IF ~IsNone(p) THEN p
        ELSE IF IsFrame(df) /\ "Close" \in df.cols /\ df.rows > 0 THEN Last(df, "Close")
        ELSE None

\* Mutant of base_target: the resistance is used wherever it lies.
base_target_any_resistance(signals, last_price) ==
    LET resistance == Get(signals, "resistance_20", None)
    IN  IF IsNone(last_price) THEN None
        ELSE IF Truthy(resistance) /\ IsNum(resistance) /\ IsNum(last_price)
             THEN Num(resistance.v * 103)
        ELSE IF IsNum(last_price) THEN Num(last_price.v * 105)
        ELSE NaN

\* Mutant of base_target: >= for > in the resistance test.
base_target_ge(signals, last_price) ==
    LET resistance == Get(signals, "resistance_20", None)
    IN  IF IsNone(last_price) THEN None
        ELSE IF Truthy(resistance) /\ IsNum(resistance) /\ IsNum(last_price)
                /\ resistance.v >= last_price.v
             THEN Num(resistance.v * 103)
        ELSE IF IsNum(last_price) THEN Num(last_price.v * 105)
        ELSE NaN

\* base_target, in 1/100 currency units
base_target(signals, last_price) ==
    LET resistance == Get(signals, "resistance_20", None)
    IN  IF IsNone(last_price) THEN None
        ELSE IF Truthy(resistance) /\ IsNum(resistance) /\ IsNum(last_price)
                /\ resistance.v > last_price.v
             THEN Num(resistance.v * 103)
        ELSE IF IsNum(last_price) THEN Num(last_price.v * 105)
        ELSE NaN

\* vol_used = max(vol, 0.01)
vol_used_of(vol) == Max(vol, VolScale \div 100)

\* target * (1 - vol_used * mult), in 1/(100 * VolScale)
target_low_of(target, vol_used) ==
    IF IsNum(target) THEN Num(target.v * (VolScale - vol_used)) ELSE NaN

\* target * (1 + vol_used * mult), in 1/(100 * VolScale)
target_high_of(target, vol_used) ==
    IF IsNum(target) THEN Num(target.v * (VolScale + vol_used)) ELSE NaN

\* round((target / last_price - 1) * 100, 2), in 1/100 percent; last_price # 0
expected_return_of(target, last_price) ==
    IF IsNum(target) /\ IsNum(last_price)
    THEN Num(RoundDiv((target.v - 100 * last_price.v) * 100, last_price.v))
    ELSE NaN

\* round(float(x), 4) for x in 1/VolScale
Round4(x) == RoundDiv(x, VolScale \div 10000) * (VolScale \div 10000)

\* The exception the body raises for this symbol, "" when it raises none:
\* `rsi < 30` with rsi None, and target / last_price with last_price 0.0
\* (float division by zero).  Nothing in score_universe catches either.
body_error(signals, df) ==
    IF IsNone(Get(signals, "rsi", Num(50))) THEN "TypeError"
    ELSE LET last_price == last_price_of(signals, df)
         IN  IF IsNum(last_price) /\ last_price.v = 0 THEN "ZeroDivisionError"
             ELSE ""

\* Mutant of signals_of: the hint of the snapshot replaced on the way.
signals_of_rehinted(info) ==
    IF "recommendation" \in DOMAIN info.signals
    THEN [info.signals EXCEPT !.recommendation = "HOLD"]
    ELSE info.signals

\* signals = info.get("signals", {}) or {}: the caller's dict itself (an
\* empty one stays empty); nothing in the body assigns into it.
signals_of(info) == info.signals

\* The dict stored in scored[sym] (only evaluated when body_error is "").
scored_entry(self, sym, info, m) ==
    LET signals == signals_of(info)
        df == info.df
        fscore == final_score(weighted_sum(self, signals, df))
        last_price == last_price_of(signals, df)
        v == volatility_for_mode(self, df, m)
        target == base_target(signals, last_price)
        banded == ~IsNone(target) /\ ~IsNone(last_price)
        vol_used == vol_used_of(v.vol)
    IN  [symbol |-> sym,
         score |-> fscore,
         signals |-> signals,
         last_price |-> last_price,
         target |-> target,
         target_low |-> IF banded THEN target_low_of(target, vol_used) ELSE None,
         target_high |-> IF banded THEN target_high_of(target, vol_used) ELSE None,
         expected_return_pct |->
             IF banded THEN expected_return_of(target, last_price) ELSE None,
         volatility |-> Round4(v.vol),
         atr_pct |-> Round4(v.atr_pct),
         ret_std |-> Round4(v.ret_std),
         vol_window |-> v.vol_window,
         risk |-> risk_rating(fscore, v.vol),
         sector |-> Get(self.sectors, sym, "Unknown"),
         rationale |-> rationale_from_signals(signals)]

----------------------------------------------------------------------------
(* StockScreener.score_universe: the loop, the sort and the top-N slice.   *)

\* Mutant of SortsAhead: of two entries with equal scores the later one
\* goes first.
SortsAheadUnstable(a, i, b, j) ==
    a.score > b.score \/ (a.score = b.score /\ i > j)

\* sorted(items, key=score, reverse=True) is stable: the item a at input
\* position i precedes the item b at position j when its score is higher,
\* or equal with i < j.
SortsAhead(a, i, b, j) ==
    a.score > b.score \/ (a.score = b.score /\ i < j)

\* The sorted list: the item with r items ahead of it takes position r + 1.
\* (SubSeq(s, 1, Len(s)) is s, as a tuple whose elements are evaluated once.)
SortedDesc(items) ==
    LET n == Len(items)
        its == SubSeq(items, 1, n)
        ahead == SubSeq([i \in 1..n |->
                            Cardinality({j \in 1..n : SortsAhead(its[j], j, its[i], i)})],
                        1, n)
    IN  [k \in 1..n |-> its[CHOOSE i \in 1..n : ahead[i] = k - 1]]

TopNTable ==
    [daily |-> 5, weekly |-> 10, monthly |-> 20, quarterly |-> 20,
     biquarterly |-> 30, yearly |-> 50]

\* Mutant of top_n: the weekly size taken from the daily row.
top_n_weekly_as_daily(m) == Get([TopNTable EXCEPT !.weekly = 5], m, 5)

top_n(m) == Get(TopNTable, m, 5)

NoResult == [status |-> "none"]

\* Indices of the symbols whose body raises, in iteration order.
Raising(ta) == {i \in 1..Len(ta) : body_error(ta[i].signals, ta[i].df) # ""}

\* The value of the call: the returned dict, or the exception that leaves it.
score_universe(self, ta, mode_arg) ==
    LET m == Lower(mode_arg)
    IN  IF Raising(ta) # {}
        THEN LET i == CHOOSE j \in Raising(ta) : \A l \in Raising(ta) : j <= l
             IN  [status |-> "raised",
                  error |-> body_error(ta[i].signals, ta[i].df),
                  symbol |-> ta[i].sym]
        ELSE LET scored == [i \in 1..Len(ta) |-> scored_entry(self, ta[i].sym, ta[i], m)]
                 items == SortedDesc(scored)
             IN  [status |-> "returned", all |-> items, top |-> Prefix(items, top_n(m))]

----------------------------------------------------------------------------
(* technical_analysis.py.  Price bars are frames whose `last` row holds    *)
(* the raw columns; the outputs of the ta / pandas calls on the bars are   *)
(* the record `lib` (values at the last bar, `_prev` one bar earlier).     *)
(* Prices, averages and bands are in currency units.                       *)

IndicatorCols ==
    {"Volume", "sma_20", "sma_50", "ema_12", "ema_26", "rsi_14", "macd",
     "macd_signal", "macd_diff", "bb_hband", "bb_lband", "bb_mavg", "bb_pos",
     "mom_5", "mom_20", "spt_20", "res_20", "sma20_slope", "sma50_slope", "trend"}

\* pd.to_numeric(x, errors="coerce") on one cell: what is no number becomes NaN
ToNumeric(x) == IF IsNum(x) THEN x ELSE NaN

\* a - b on floats
Sub(a, b) == IF IsNum(a) /\ IsNum(b) THEN Num(a.v - b.v) ELSE NaN

\* (Close - lband) / (hband - lband + 1e-9), in 1/100.  With collapsed bands
\* the divisor is 1e-9: 0 stays 0, anything else leaves every threshold behind.
bb_pos_of(close, lband, hband) ==
    IF ~(IsNum(close) /\ IsNum(lband) /\ IsNum(hband)) THEN NaN
    ELSE IF hband.v = lband.v
         THEN (IF close.v = lband.v THEN Num(0)
               ELSE IF close.v > lband.v THEN Num(10 ^ 8) ELSE Num(-(10 ^ 8)))
    ELSE Num(RoundDiv(100 * (close.v - lband.v), hband.v - lband.v))

\* TechnicalAnalyzer._detect_trend
detect_trend(row) ==
    IF ~IsNum(row["sma_20"]) \/ ~IsNum(row["sma_50"]) THEN "unknown"
    ELSE IF row["sma_20"].v > row["sma_50"].v /\ Gt(row["sma20_slope"], 0) THEN "up"
    ELSE IF row["sma_20"].v < row["sma_50"].v /\ Lt(row["sma20_slope"], 0) THEN "down"
    ELSE "sideways"

\* Mutant of add_indicators_error: no check for the Close column, so that the
\* first df["Close"] fails.
add_indicators_error_unchecked(df) ==
    IF "Close" \notin df.cols THEN "KeyError: 'Close'"
    ELSE IF "Volume" \notin df.cols THEN "AttributeError: 'int' object has no attribute 'fillna'"
    ELSE IF "Low" \notin df.cols THEN "KeyError: 'Low'"
    ELSE IF "High" \notin df.cols THEN "KeyError: 'High'"
    ELSE ""

\* The exception add_indicators raises on these bars, "" when it raises none.
\* Line 32: without a Volume column df.get("Volume", 0) is the int 0,
\* pd.to_numeric returns a number unchanged, and an int has no fillna.
\* Lines 65-66 index df["Low"] and df["High"].
add_indicators_error(df) ==
    IF "Close" \notin df.cols THEN "ValueError: DataFrame missing Close column"
    ELSE IF "Volume" \notin df.cols THEN "AttributeError: 'int' object has no attribute 'fillna'"
    ELSE IF "Low" \notin df.cols THEN "KeyError: 'Low'"
    ELSE IF "High" \notin df.cols THEN "KeyError: 'High'"
    ELSE ""

\* The frame add_indicators builds on its copy (add_indicators_error is "").
indicator_frame(df) ==
    LET close == ToNumeric(df.last["Close"])
        volume == LET n == ToNumeric(df.last["Volume"]) IN IF IsNaN(n) THEN Num(0) ELSE n
        macd_diff == Sub(df.lib.macd, df.lib.macd_signal)
        prev_diff == Sub(df.lib.macd_prev, df.lib.macd_signal_prev)
        slope == Sub(df.lib.sma_20, df.lib.sma_20_prev)
        row == ("Close" :> close) @@ ("Volume" :> volume)
               @@ ("sma_20" :> df.lib.sma_20) @@ ("sma_50" :> df.lib.sma_50)
               @@ ("rsi_14" :> df.lib.rsi_14) @@ ("macd_diff" :> macd_diff)
               @@ ("bb_pos" :> bb_pos_of(close, df.lib.bb_lband, df.lib.bb_hband))
               @@ ("mom_5" :> df.lib.mom_5) @@ ("mom_20" :> df.lib.mom_20)
               @@ ("spt_20" :> df.lib.spt_20) @@ ("res_20" :> df.lib.res_20)
               @@ ("sma20_slope" :> slope)
               @@ df.last
    IN  [df EXCEPT !.cols = df.cols \cup IndicatorCols,
                   !.last = ("trend" :> detect_trend(row)) @@ row,
                   !.prev = ("macd_diff" :> prev_diff) @@ df.prev]

\* TechnicalAnalyzer.add_indicators: the value of the call and the caller's
\* frame after it (the method works on df.copy()).
add_indicators(df) ==
    IF add_indicators_error(df) # ""
    THEN [status |-> "raised", error |-> add_indicators_error(df), arg |-> df]
    ELSE [status |-> "returned", frame |-> indicator_frame(df), arg |-> df]

\* Mutant of rsi_signal_of: the states take the bands of the sub-score table
\* of score_universe, 55 counting as strong and 70 as overbought.
rsi_signal_of_inclusive(rsi) ==
    IF ~IsNum(rsi) THEN "neutral"
    ELSE IF rsi.v < 30 THEN "oversold"
    ELSE IF rsi.v >= 70 THEN "overbought"
    ELSE IF rsi.v < 45 THEN "weak"
    ELSE IF rsi.v >= 55 THEN "strong"
    ELSE "neutral"

\* Lines 101-110: the qualitative state of the oscillator.
rsi_signal_of(rsi) ==
    IF ~IsNum(rsi) THEN "neutral"
    ELSE IF rsi.v < 30 THEN "oversold"
    ELSE IF rsi.v > 70 THEN "overbought"
    ELSE IF rsi.v < 45 THEN "weak"
    ELSE IF rsi.v > 55 THEN "strong"
    ELSE "neutral"

\* Mutant of macd_signal_of: an undefined value classified like an unchanged
\* sign.
macd_signal_of_conflated(macd_diff, prev_diff) ==
    IF IsNum(macd_diff) /\ IsNum(prev_diff) /\ prev_diff.v < 0 /\ macd_diff.v > 0
    THEN "bullish_crossover"
    ELSE IF IsNum(macd_diff) /\ IsNum(prev_diff) /\ prev_diff.v > 0 /\ macd_diff.v < 0
    THEN "bearish_crossover"
    ELSE "neutral"

\* Lines 116-124: the crossover state.
macd_signal_of(macd_diff, prev_diff) ==
    IF IsNum(macd_diff) /\ IsNum(prev_diff)
    THEN (IF prev_diff.v < 0 /\ macd_diff.v > 0 THEN "bullish_crossover"
          ELSE IF prev_diff.v > 0 /\ macd_diff.v < 0 THEN "bearish_crossover"
          ELSE "neutral")
    ELSE "unknown"

\* Mutant of recommendation_of: a single vote is not enough for HOLD.
recommendation_of_two_to_hold(score_buy) ==
    IF score_buy >= 3 THEN "STRONG BUY"
    ELSE IF score_buy = 2 THEN "HOLD"
    ELSE "SELL"

\* Mutant of recommendation_of: three votes are not enough for STRONG BUY.
recommendation_of_unanimous(score_buy) ==
    IF score_buy > 3 THEN "STRONG BUY"
    ELSE IF score_buy >= 2 THEN "BUY"
    ELSE IF score_buy = 1 THEN "HOLD"
    ELSE "SELL"

\* Lines 157-165: the recommendation hint for a number of buy votes.
recommendation_of(score_buy) ==
    IF score_buy >= 3 THEN "STRONG BUY"
    ELSE IF score_buy = 2 THEN "BUY"
    ELSE IF score_buy = 1 THEN "HOLD"
    ELSE "SELL"

\* TechnicalAnalyzer.generate_signals, on a frame that has the Volume column
\* (add_indicators always adds it; line 134 indexes df["Volume"]).
generate_signals(df) ==
    IF df.rows = 0 THEN <<>>
    ELSE
    LET latest == df.last
        prev == IF df.rows > 1 THEN df.prev ELSE latest
        rsi == Get(latest, "rsi_14", None)
        rsi_signal == rsi_signal_of(rsi)
        macd_diff == Get(latest, "macd_diff", None)
        prev_diff == Get(prev, "macd_diff", None)
        macd_signal == macd_signal_of(macd_diff, prev_diff)
        close == Get(latest, "Close", Num(0))
        trend == Get(latest, "trend", "unknown")
        vol == Get(latest, "Volume", Num(0))
        vol_avg == df.vol_avg
        volume_surge == Gt(vol_avg, 0) /\ IsNum(vol) /\ 2 * vol.v > 3 * vol_avg.v
        score_buy ==
              (IF macd_signal = "bullish_crossover" THEN 1 ELSE 0)
            + (IF rsi_signal \in {"oversold", "strong"} THEN 1 ELSE 0)
            + (IF trend = "up" THEN 1 ELSE 0)
            + (IF volume_surge THEN 1 ELSE 0)
    IN  [rsi |-> rsi,
         rsi_signal |-> rsi_signal,
         macd_diff |-> macd_diff,
         macd_signal |-> macd_signal,
         price |-> Get(latest, "Close", None),
         above_sma20 |-> GtVal(close, Get(latest, "sma_20", NaN)),
         above_sma50 |-> GtVal(close, Get(latest, "sma_50", NaN)),
         trend |-> trend,
         volume |-> vol,
         vol_avg_20 |-> vol_avg,
         volume_surge |-> volume_surge,
         bb_pos |-> Get(latest, "bb_pos", None),
         support_20 |-> Get(latest, "spt_20", None),
         resistance_20 |-> Get(latest, "res_20", None),
         recommendation |-> recommendation_of(score_buy)]

----------------------------------------------------------------------------
(* Inputs.                                                                 *)

RawCols == {"Open", "High", "Low", "Close", "Volume"}

Windows == {2, 20, 40, 60, 120, 240}

Flat(v) == [w \in Windows |-> v]

\* Horizon strings: the six horizons, two spellings str.lower() changes and
\* one string that is no horizon.
Horizons == {"daily", "weekly", "monthly", "quarterly", "biquarterly", "yearly"}
ModeArgs == Horizons \cup {"WEEKLY", "Yearly", "Hourly"}

\* Oscillator values around every threshold of lines 165-174 and 103-110.
RsiInputs ==
    {NaN, Num(25), Num(30), Num(44), Num(45), Num(50), Num(55), Num(56), Num(70), Num(72)}

\* (previous, current) crossover distance
MacdInputs ==
    {<<Num(-1), Num(1)>>, <<Num(1), Num(-1)>>, <<Num(1), Num(1)>>, <<NaN, Num(1)>>}

TrendInputs == {"up", "down", "sideways", "unknown"}

\* (mom_5, mom_20) in 1/10000
MomInputs ==
    {<<NaN, NaN>>, <<Num(600), NaN>>, <<Num(600), Num(600)>>, <<Num(150), Num(150)>>,
     <<Num(-200), Num(-200)>>}

\* (mom_5, mom_20) with the mean at a threshold of lines 203-210, and with
\* one ratio undefined.
MomEdgeInputs ==
    {<<Num(500), Num(500)>>, <<Num(100), Num(100)>>, <<Num(-100), Num(-100)>>,
     <<Num(600), Num(-400)>>, <<NaN, Num(600)>>, <<Num(300), NaN>>, <<Num(-300), NaN>>}

\* band position in 1/100
BbInputs == {NaN, Num(-10), Num(0), Num(15), Num(20), Num(50), Num(79), Num(80)}

\* (Volume, 20-bar average volume)
VolumeInputs == {<<Num(1000), Num(500)>>, <<Num(500), Num(500)>>}

\* A synthetic indicator frame with the given last row.
SyntheticFrame(rsi, macd, trend, volm, bb, mom, close, res, atr, n_ret, roll_std, full_std) ==
    [kind |-> "frame", rows |-> 60, cols |-> RawCols \cup IndicatorCols,
     last |-> ("Close" :> close) @@ ("High" :> close) @@ ("Low" :> close)
              @@ ("Volume" :> volm[1]) @@ ("rsi_14" :> rsi) @@ ("macd_diff" :> macd[2])
              @@ ("trend" :> trend) @@ ("bb_pos" :> bb)
              @@ ("mom_5" :> mom[1]) @@ ("mom_20" :> mom[2])
              @@ ("sma_20" :> close) @@ ("sma_50" :> close)
              @@ ("spt_20" :> close) @@ ("res_20" :> res),
     prev |-> ("macd_diff" :> macd[1]),
     atr |-> atr, n_ret |-> n_ret, roll_std |-> roll_std, full_std |-> full_std,
     vol_avg |-> volm[2]]

\* d without the key k
Drop(d, k) == [x \in DOMAIN d \ {k} |-> d[x]]

\* The snapshots a caller can hand over for a frame besides the one
\* generate_signals derives: a key missing, the oscillator None, the empty one.
HandMade(sig) ==
    {Drop(sig, "rsi"), Drop(sig, "bb_pos"), Drop(sig, "price"),
     Drop(sig, "resistance_20"), [sig EXCEPT !.rsi = None], <<>>}

\* The i-th symbol name.
Sym(i) == "S" \o ToString(i)

Universe1(df, sig) == <<[sym |-> Sym(1), df |-> df, signals |-> sig]>>

\* A frame that differs from an ordinary one in the given columns only.
ScoreFrame(rsi, macd, trend, volm, bb, mom) ==
    SyntheticFrame(rsi, macd, trend, volm, bb, mom, Num(10), Num(12),
                   Num(200), 59, Flat(Num(3000)), Num(3000))

PlainFrame(rsi, bb) ==
    ScoreFrame(rsi, <<Num(1), Num(1)>>, "sideways", <<Num(500), Num(500)>>, bb,
               <<Num(0), Num(0)>>)

\* Last close, resistance (currency units) and ATR (1/1000 currency units).
PriceInputs == {NaN, Num(-10), Num(0), Num(3), Num(10), Num(20)}
ResInputs == {NaN, Num(-5), Num(0), Num(10), Num(12), Num(25)}
AtrInputs == {NaN, Num(0), Num(20), Num(200), Num(900), Num(15000)}

\* A rolling std that depends on the window (too little history for 240 bars).
ByWindow ==
    [w \in Windows |-> IF w <= 20 THEN Num(2000)
                       ELSE IF w <= 60 THEN Num(3000)
                       ELSE IF w <= 120 THEN Num(5000) ELSE NaN]

\* (n_ret, roll_std, full_std), std in 1/VolScale: one bar; three returns;
\* long histories at various levels, 0.04 and 0.08 among them.
StdInputs ==
    {<<0, Flat(NaN), NaN>>,
     <<3, Flat(NaN), Num(400)>>,
     <<59, Flat(Num(0)), Num(0)>>,
     <<59, Flat(Num(996)), Num(996)>>,
     <<59, Flat(Num(5000)), Num(4000)>>,
     <<59, Flat(Num(4004)), Num(4004)>>,
     <<59, Flat(Num(4000)), Num(4000)>>,
     <<59, Flat(Num(8000)), Num(8000)>>,
     <<130, ByWindow, Num(7000)>>}

\* (rsi, macd, trend, volume, bb, mom): a perfect, a middling and a poor symbol
ScoreProfiles ==
    {<<Num(25), <<Num(-1), Num(1)>>, "up", <<Num(1000), Num(500)>>, Num(15), <<Num(600), Num(600)>>>>,
     <<Num(44), <<Num(1), Num(1)>>, "up", <<Num(500), Num(500)>>, Num(50), <<Num(150), Num(150)>>>>,
     <<Num(72), <<Num(1), Num(-1)>>, "down", <<Num(500), Num(500)>>, Num(80), <<Num(-200), Num(-200)>>>>}

\* Symbols that score exactly 65.0 and exactly 40.0.
RiskProfiles ==
    {<<Num(44), <<Num(1), Num(1)>>, "up", <<Num(1000), Num(500)>>, Num(80), <<Num(0), Num(0)>>>>,
     <<Num(56), <<Num(1), Num(1)>>, "up", <<Num(500), Num(500)>>, Num(80), <<Num(-200), Num(-200)>>>>}

TargetFrame(sp, close, res, atr, std) ==
    SyntheticFrame(sp[1], sp[2], sp[3], sp[4], sp[5], sp[6], close, res,
                   atr, std[1], std[2], std[3])

PlainProfile ==
    <<Num(44), <<Num(1), Num(1)>>, "up", <<Num(500), Num(500)>>, Num(50), <<Num(150), Num(150)>>>>

PlainTargetFrame(close, res) ==
    TargetFrame(PlainProfile, close, res, Num(200), <<59, Flat(Num(3000)), Num(3000)>>)

----------------------------------------------------------------------------
(* Direct calls of score_universe on a constructed screener.               *)

ScoreUniverseCall ==
    /\ pc = "call"
    /\ scoring_results' = score_universe(screener, ta_results, mode)
    /\ pc' = IF scoring_results'.status = "raised" THEN "raised" ELSE "returned"
    /\ UNCHANGED <<screener, mode, hist_data, idx, ta_results, ta_out>>

InitCall ==
    /\ pc = "call"
    /\ screener = StockScreenerInit
    /\ hist_data = <<>>
    /\ idx = 0
    /\ ta_out = NoResult
    /\ scoring_results = NoResult

\* Universes of one symbol that exercise the composite score: every
\* combination of the six scored inputs with the snapshot generate_signals
\* derives, hand-made snapshots with and without a frame, and momentum ratios
\* at the thresholds, undefined, or without their column.
InitScore ==
    /\ InitCall
    /\ mode = "daily"
    /\ \/ \E rsi \in RsiInputs, macd \in MacdInputs, trend \in TrendInputs,
             volm \in VolumeInputs, bb \in BbInputs, mom \in MomInputs :
             LET f == ScoreFrame(rsi, macd, trend, volm, bb, mom)
             IN  ta_results = Universe1(f, generate_signals(f))
       \/ \E rsi \in RsiInputs, bb \in BbInputs, df \in {"frame", "none"} :
             LET f == PlainFrame(rsi, bb)
             IN  \E g \in HandMade(generate_signals(f)) :
                     ta_results = Universe1(IF df = "frame" THEN f ELSE NoFrame, g)
       \/ \E rsi \in {Num(25), Num(50)}, mom \in MomEdgeInputs, dropped \in BOOLEAN :
             LET f == ScoreFrame(rsi, <<Num(1), Num(1)>>, "sideways", <<Num(500), Num(500)>>,
                                 Num(50), mom)
                 g == IF dropped
                      THEN [f EXCEPT !.cols = f.cols \ {"mom_20"}]
                      ELSE f
             IN  ta_results = Universe1(g, generate_signals(f))

NextScore == ScoreUniverseCall

SpecScore == InitScore /\ [][NextScore]_vars

\* Universes of one symbol that exercise price, target band and volatility:
\* every combination under the monthly horizon, the window-dependent rolling
\* std under every horizon string, hand-made snapshots, and the scores at the
\* thresholds of _risk_rating.
InitTarget ==
    /\ InitCall
    /\ \/ /\ mode = "monthly"
          /\ \E sp \in ScoreProfiles, close \in PriceInputs, res \in ResInputs,
                atr \in AtrInputs, std \in StdInputs :
                LET f == TargetFrame(sp, close, res, atr, std)
                IN  ta_results = Universe1(f, generate_signals(f))
       \/ /\ mode \in ModeArgs
          /\ \E sp \in ScoreProfiles, close \in PriceInputs, res \in {Num(0), Num(12)},
                atr \in AtrInputs :
                LET f == TargetFrame(sp, close, res, atr, <<130, ByWindow, Num(7000)>>)
                IN  ta_results = Universe1(f, generate_signals(f))
       \/ /\ mode = "monthly"
          /\ \E close \in PriceInputs, res \in ResInputs, df \in {"frame", "none"} :
                LET f == PlainTargetFrame(close, res)
                IN  \E g \in HandMade(generate_signals(f)) \cup {generate_signals(f)} :
                        ta_results = Universe1(IF df = "frame" THEN f ELSE NoFrame, g)
       \/ /\ mode = "monthly"
          /\ \E sp \in RiskProfiles, atr \in AtrInputs, std \in StdInputs :
                LET f == TargetFrame(sp, Num(10), Num(12), atr, std)
                IN  ta_results = Universe1(f, generate_signals(f))

NextTarget == ScoreUniverseCall

SpecTarget == InitTarget /\ [][NextTarget]_vars

----------------------------------------------------------------------------
(* Price bars, as fetch_batch returns them.                                *)

\* Library outputs at the last bar.  macd: (previous, current) value of the
\* MACD line over a signal line at 0; smas: (sma_20, previous sma_20, sma_50);
\* bands: (lower, upper); mom: (mom_5, mom_20).
LibOf(rsi, macd, smas, bands, mom, res) ==
    [rsi_14 |-> rsi,
     macd_prev |-> macd[1], macd_signal_prev |-> Num(0),
     macd |-> macd[2], macd_signal |-> Num(0),
     sma_20 |-> smas[1], sma_20_prev |-> smas[2], sma_50 |-> smas[3],
     bb_lband |-> bands[1], bb_hband |-> bands[2],
     mom_5 |-> mom[1], mom_20 |-> mom[2],
     spt_20 |-> Num(8), res_20 |-> res]

\* Bars with the columns `cols`, the last close `close`, (Volume, average volume)
\* `volm` and the library outputs `lib`; 60 bars of history.
Bars(cols, close, volm, lib) ==
    [kind |-> "frame", rows |-> 60, cols |-> cols,
     last |-> [c \in cols |-> IF c = "Volume" THEN volm[1] ELSE close],
     prev |-> [c \in cols |-> IF c = "Volume" THEN volm[1] ELSE close],
     lib |-> lib,
     atr |-> Num(200), n_ret |-> 59, roll_std |-> Flat(Num(3000)), full_std |-> Num(3000),
     vol_avg |-> volm[2]]

SmaInputs ==
    {<<Num(11), Num(10), Num(9)>>, <<Num(9), Num(10), Num(11)>>,
     <<Num(11), Num(11), Num(9)>>, <<Num(11), Num(10), NaN>>}

StrongLib ==
    LibOf(Num(25), <<Num(-1), Num(1)>>, <<Num(11), Num(10), Num(9)>>,
          <<Num(9), Num(16)>>, <<Num(600), Num(600)>>, Num(12))

PlainLib ==
    LibOf(Num(50), <<Num(1), Num(1)>>, <<Num(11), Num(11), Num(9)>>,
          <<Num(5), Num(15)>>, <<Num(0), Num(0)>>, Num(12))

WeakLib ==
    LibOf(Num(72), <<Num(1), Num(-1)>>, <<Num(9), Num(10), Num(11)>>,
          <<Num(2), Num(10)>>, <<Num(-200), Num(-200)>>, Num(12))

Quiet == <<Num(500), Num(500)>>
Surge == <<Num(1000), Num(500)>>

\* What fetch_batch can return for one symbol.
BarProfiles ==
    {"strong", "plain", "weak", "no_close", "no_volume", "no_low",
     "empty", "zero_close", "nan_close"}

BarsOf(profile) ==
    CASE profile = "strong" -> Bars(RawCols, Num(10), Surge, StrongLib)
      [] profile = "plain" -> Bars(RawCols, Num(10), Quiet, PlainLib)
      [] profile = "weak" -> Bars(RawCols, Num(10), Quiet, WeakLib)
      [] profile = "no_close" -> Bars(RawCols \ {"Close"}, Num(10), Quiet, PlainLib)
      [] profile = "no_volume" -> Bars(RawCols \ {"Volume"}, Num(10), Quiet, PlainLib)
      [] profile = "no_low" -> Bars(RawCols \ {"Low"}, Num(10), Quiet, PlainLib)
      [] profile = "empty" -> [Bars(RawCols, Num(10), Quiet, PlainLib) EXCEPT !.rows = 0]
      [] profile = "zero_close" -> Bars(RawCols, Num(0), Quiet, PlainLib)
      [] profile = "nan_close" -> Bars(RawCols, NaN, Quiet, PlainLib)

\* Largest number of symbols fetch_batch returns.
MaxBatch == 3

\* The batch in which symbol i has the bars of profile f[i].
BatchOf(f) == [i \in DOMAIN f |-> [sym |-> Sym(i), df |-> BarsOf(f[i])]]

----------------------------------------------------------------------------
(* main.py: run(mode).                                                     *)

\* Mutant of allowed_modes: one more horizon passes the check.
allowed_modes_with_hourly ==
    {"daily", "weekly", "monthly", "quarterly", "biquarterly", "yearly", "hourly"}

\* Line 121 of run().
allowed_modes == {"daily", "weekly", "monthly", "quarterly", "biquarterly", "yearly"}

NoScreener == [weights |-> <<>>, sectors |-> <<>>, vol_window_map |-> <<>>]

\* Horizon strings run() is started with.
RunModes == {"daily", "WEEKLY", "Hourly"}

Init ==
    /\ pc = "start"
    /\ screener = NoScreener
    /\ mode \in RunModes
    /\ hist_data = <<>>
    /\ idx = 0
    /\ ta_results = <<>>
    /\ ta_out = NoResult
    /\ scoring_results = NoResult

\* Lines 120-124: an unknown horizon is logged and run returns.
RunReject ==
    /\ pc = "start"
    /\ Lower(mode) \notin allowed_modes
    /\ pc' = "rejected"
    /\ UNCHANGED <<screener, mode, hist_data, idx, ta_results, ta_out, scoring_results>>

\* Lines 120-167: the components are built and the history is fetched.
RunStart ==
    /\ pc = "start"
    /\ Lower(mode) \in allowed_modes
    /\ mode' = Lower(mode)
    /\ screener' = StockScreenerInit
    /\ \E n \in 0..MaxBatch : \E f \in [1..n -> BarProfiles] : hist_data' = BatchOf(f)
    /\ pc' = "ta"
    /\ UNCHANGED <<idx, ta_results, ta_out, scoring_results>>

\* Lines 171-180: one iteration of the TA loop.
RunTA ==
    /\ pc = "ta"
    /\ idx < Len(hist_data)
    /\ LET sym == hist_data[idx + 1].sym
           df == hist_data[idx + 1].df
           out == add_indicators(df)
       IN  IF NoneOrEmpty(df)
           THEN /\ ta_out' = [status |-> "skipped"]
                /\ UNCHANGED <<hist_data, ta_results>>
           ELSE IF out.status = "raised"
           THEN /\ ta_out' = [status |-> "raised", error |-> out.error]
                /\ hist_data' = [hist_data EXCEPT ![idx + 1].df = out.arg]
                /\ UNCHANGED ta_results
           ELSE /\ ta_out' = [status |-> "returned"]
                /\ hist_data' = [hist_data EXCEPT ![idx + 1].df = out.arg]
                /\ ta_results' = Append(ta_results,
                       [sym |-> sym, df |-> out.frame, signals |-> generate_signals(out.frame)])
    /\ idx' = idx + 1
    /\ UNCHANGED <<pc, screener, mode, scoring_results>>

\* Line 183: score_universe on what the loop collected.
RunScore ==
    /\ pc = "ta"
    /\ idx = Len(hist_data)
    /\ scoring_results' = score_universe(screener, ta_results, mode)
    /\ pc' = IF scoring_results'.status = "raised" THEN "crashed" ELSE "scored"
    /\ UNCHANGED <<screener, mode, hist_data, idx, ta_results, ta_out>>

\* Lines 186-206: the report is written and printed, the e-mail is attempted
\* and the issue is filed; writing the report or filing the issue may raise.
RunReport ==
    /\ pc = "scored"
    /\ pc' \in {"reported", "report_failed"}
    /\ UNCHANGED <<screener, mode, hist_data, idx, ta_results, ta_out, scoring_results>>

Next == RunReject \/ RunStart \/ RunTA \/ RunScore \/ RunReport

Spec == Init /\ [][Next]_vars

----------------------------------------------------------------------------
(* Direct calls of add_indicators and generate_signals.                    *)

\* analyzer.add_indicators(df) followed, when it returns, by
\* analyzer.generate_signals on the frame it returned.
AnalyzerCall ==
    /\ pc = "call_ta"
    /\ LET out == add_indicators(hist_data[1].df)
       IN  /\ ta_out' = IF out.status = "raised"
                        THEN [status |-> "raised", error |-> out.error]
                        ELSE [status |-> "returned", frame |-> out.frame,
                              signals |-> generate_signals(out.frame)]
           /\ hist_data' = [hist_data EXCEPT ![1].df = out.arg]
    /\ pc' = "called_ta"
    /\ UNCHANGED <<screener, mode, idx, ta_results, scoring_results>>

\* analyzer.generate_signals(df) on a frame the caller holds.
SignalsCall ==
    /\ pc = "call_gs"
    /\ ta_out' = [status |-> "returned", frame |-> hist_data[1].df,
                  signals |-> generate_signals(hist_data[1].df)]
    /\ pc' = "called_gs"
    /\ UNCHANGED <<screener, mode, hist_data, idx, ta_results, scoring_results>>

\* (previous, current) crossover distance: every pair of an undefined, a
\* negative, a zero and a positive value.
CrossInputs ==
    {<<p, c>> : p \in {NaN, Num(-1), Num(0), Num(1)}, c \in {NaN, Num(-1), Num(0), Num(1)}}

\* len(df) of the frames handed to generate_signals.
RowInputs == {0, 1, 2, 60}

\* Bars with every combination of the four columns add_indicators reads, and
\* indicator frames of various lengths for generate_signals.
InitTA ==
    /\ screener = NoScreener
    /\ mode = "daily"
    /\ idx = 0
    /\ ta_results = <<>>
    /\ ta_out = NoResult
    /\ scoring_results = NoResult
    /\ \/ /\ pc = "call_ta"
          /\ \E missing \in SUBSET {"Close", "Volume", "High", "Low"},
                close \in {Num(10), Num(0), NaN},
                rsi \in RsiInputs, macd \in MacdInputs, smas \in SmaInputs,
                volm \in {Quiet, Surge} :
                hist_data = <<[sym |-> Sym(1),
                               df |-> Bars(RawCols \ missing, close, volm,
                                           LibOf(rsi, macd, smas, <<Num(5), Num(15)>>,
                                                 <<Num(0), Num(0)>>, Num(12)))]>>
       \/ /\ pc = "call_gs"
          /\ \E rows \in RowInputs, macd \in CrossInputs,
                rsi \in {NaN, Num(25), Num(50), Num(56)}, trend \in TrendInputs,
                volm \in VolumeInputs :
                hist_data = <<[sym |-> Sym(1),
                               df |-> [ScoreFrame(rsi, macd, trend, volm, Num(50),
                                                  <<Num(0), Num(0)>>)
                                       EXCEPT !.rows = rows]]>>

NextTA == AnalyzerCall \/ SignalsCall

SpecTA == InitTA /\ [][NextTA]_vars

----------------------------------------------------------------------------
(* Direct calls of score_universe on universes of many symbols.            *)

\* Largest universe handed to score_universe.
MaxUniverse == 51

\* Three frames with three different scores.
RankFrames ==
    <<ScoreFrame(Num(25), <<Num(-1), Num(1)>>, "up", Surge, Num(15), <<Num(600), Num(600)>>),
      ScoreFrame(Num(50), <<Num(1), Num(1)>>, "sideways", Quiet, Num(50), <<Num(0), Num(0)>>),
      ScoreFrame(Num(72), <<Num(1), Num(-1)>>, "down", Quiet, Num(80), <<Num(-200), Num(-200)>>)>>

\* The universe of n symbols in which symbol i has frame number
\* ((i * stride + offset) mod 3) + 1: all alike for stride 0, cycling through
\* the three frames upwards for stride 1 and downwards for stride 2.
RankUniverse(n, stride, offset) ==
    [i \in 1..n |->
        LET f == RankFrames[((i * stride + offset) % 3) + 1]
        IN  [sym |-> Sym(i), df |-> f, signals |-> generate_signals(f)]]

InitRank ==
    /\ InitCall
    /\ mode \in ModeArgs
    /\ \E n \in 0..MaxUniverse, stride \in 0..2, offset \in 0..2 :
          ta_results = RankUniverse(n, stride, offset)

NextRank == ScoreUniverseCall

SpecRank == InitRank /\ [][NextRank]_vars

----------------------------------------------------------------------------
(* Direct calls of score_universe on two symbols that differ in the        *)
(* oscillator value only.                                                  *)

\* The values of the 14-period oscillator.
OscRange == 0..100

InitOsc ==
    /\ InitCall
    /\ mode = "daily"
    /\ \E a \in OscRange, b \in OscRange :
          /\ a <= b
          /\ LET fa == PlainFrame(Num(a), Num(50))
                 fb == PlainFrame(Num(b), Num(50))
             IN  ta_results = <<[sym |-> Sym(1), df |-> fa, signals |-> generate_signals(fa)],
                                [sym |-> Sym(2), df |-> fb, signals |-> generate_signals(fb)]>>

NextOsc == ScoreUniverseCall

SpecOsc == InitOsc /\ [][NextOsc]_vars

----------------------------------------------------------------------------
(* add_indicators bar by bar.  Here a price history is the sequence of its *)
(* bars and the indicator frame the sequence of its rows.  A moving        *)
(* average, a rolling extreme and a slope are computed; what the libraries *)
(* compute with exponential weights, square roots or quotients is given by *)
(* the routine and the cells it reads at the bar, so that equal reads give *)
(* equal values and different reads are told apart.                        *)

\* The value a routine returns from the cells it reads.
Fn(op, reads) == [k |-> "fn", op |-> op, reads |-> reads]

\* One column of a history, bar by bar.
ColumnOf(bars, c) == SubSeq([t \in 1..Len(bars) |-> bars[t][c]], 1, Len(bars))

\* col[lo] + ... + col[hi]
RECURSIVE SumOf(_, _, _)
SumOf(col, lo, hi) ==
    IF lo > hi THEN 0
    ELSE IF lo = hi THEN col[lo]
    ELSE LET mid == (lo + hi) \div 2
         IN  SumOf(col, lo, mid) + SumOf(col, mid + 1, hi)

\* SMAIndicator(window=w).sma_indicator() at bar t, that is
\* rolling(w, min_periods=w).mean(), in 1/100.
rolling_mean(col, t, w) ==
    IF t < w THEN NaN ELSE Num((100 * SumOf(col, t - w + 1, t)) \div w)

\* An exponentially weighted mean with min_periods=w at bar t: a recursion
\* over every bar so far (EMAIndicator, the averages inside RSIIndicator and
\* MACD), defined from the w-th bar on.
ewm_mean(op, col, t, w) ==
    IF t < w THEN NaN ELSE Fn(op, SubSeq(col, 1, t))

\* BollingerBands(window=w, window_dev=2): rolling mean +/- 2 rolling std.
bollinger_band(op, col, t, w) ==
    IF t < w THEN NaN ELSE Fn(op, SubSeq(col, t - w + 1, t))

\* Series.pct_change(k) at bar t
pct_change(col, t, k) ==
    IF t <= k THEN NaN ELSE Fn("pct_change", <<col[t - k], col[t]>>)

\* Series.rolling(window=w, min_periods=minp).min() at bar t
rolling_min(col, t, w, minp) ==
    IF t < minp THEN NaN
    ELSE LET seen == {col[j] : j \in Max(1, t - w + 1)..t}
         IN  Num(CHOOSE m \in seen : \A o \in seen : m <= o)

\* Mutant of rolling_max: the window is centred on the bar (center=True).
rolling_max_centred(col, t, w, minp) ==
    LET lo == Max(1, t - (w \div 2))
        hi == Min(Len(col), t + (w \div 2) - 1)
    IN  IF hi - lo + 1 < minp THEN NaN
        ELSE LET seen == {col[j] : j \in lo..hi}
             IN  Num(CHOOSE m \in seen : \A o \in seen : m >= o)

\* Series.rolling(window=w, min_periods=minp).max() at bar t
rolling_max(col, t, w, minp) ==
    IF t < minp THEN NaN
    ELSE LET seen == {col[j] : j \in Max(1, t - w + 1)..t}
         IN  Num(CHOOSE m \in seen : \A o \in seen : m >= o)

\* An arithmetic expression over cells of one row: undefined when a cell is.
RowExpr(op, cells) ==
    IF \E j \in 1..Len(cells) : IsNaN(cells[j]) THEN NaN ELSE Fn(op, cells)

\* Row t of the frame add_indicators returns for a history with its four
\* price columns and its volume column, every cell a number.
indicator_row(bars, t) ==
    LET close == ColumnOf(bars, "Close")
        sma(w, u) == rolling_mean(close, u, w)
        diff(w) == IF t = 1 THEN NaN ELSE Sub(sma(w, t), sma(w, t - 1))
        macd == IF t < 26 THEN NaN ELSE Fn("macd", SubSeq(close, 1, t))
        macd_signal == IF t < 34 THEN NaN ELSE Fn("macd_signal", SubSeq(close, 1, t))
        hband == bollinger_band("bb_hband", close, t, 20)
        lband == bollinger_band("bb_lband", close, t, 20)
        row == ("sma_20" :> sma(20, t)) @@ ("sma_50" :> sma(50, t))
               @@ ("ema_12" :> ewm_mean("ema_12", close, t, 12))
               @@ ("ema_26" :> ewm_mean("ema_26", close, t, 26))
               @@ ("rsi_14" :> ewm_mean("rsi_14", close, t, 14))
               @@ ("macd" :> macd) @@ ("macd_signal" :> macd_signal)
               @@ ("macd_diff" :> RowExpr("macd_diff", <<macd, macd_signal>>))
               @@ ("bb_hband" :> hband) @@ ("bb_lband" :> lband)
               @@ ("bb_mavg" :> sma(20, t))
               @@ ("bb_pos" :> RowExpr("bb_pos", <<Num(close[t]), lband, hband>>))
               @@ ("mom_5" :> pct_change(close, t, 5))
               @@ ("mom_20" :> pct_change(close, t, 20))
               @@ ("spt_20" :> rolling_min(ColumnOf(bars, "Low"), t, 20, 5))
               @@ ("res_20" :> rolling_max(ColumnOf(bars, "High"), t, 20, 5))
               @@ ("sma20_slope" :> diff(20)) @@ ("sma50_slope" :> diff(50))
               @@ [c \in RawCols |-> Num(bars[t][c])]
    IN  ("trend" :> detect_trend(row)) @@ row

\* The frame add_indicators returns for such a history.
indicator_rows(bars) ==
    SubSeq([t \in 1..Len(bars) |-> indicator_row(bars, t)], 1, Len(bars))

\* The longest history handed to add_indicators here.
MaxBars == 52

Shapes == {"flat", "rising", "falling", "wave"}

\* Bar t of a history of the given shape.
BarAt(shape, t) ==
    LET p == CASE shape = "flat" -> 100
               [] shape = "rising" -> 100 + t
               [] shape = "falling" -> 200 - t
               [] shape = "wave" -> 100 + 5 * (t % 4)
    IN  [c \in RawCols |->
            CASE c = "Open" -> p
              [] c = "High" -> p + 2
              [] c = "Low" -> p - 2
              [] c = "Close" -> p
              [] c = "Volume" -> 1000 + 10 * (t % 3)]

\* n bars that take the first shape up to bar i and the second after it.
History(shape, i, after, n) ==
    SubSeq([t \in 1..n |-> IF t <= i THEN BarAt(shape, t) ELSE BarAt(after, t)], 1, n)

\* analyzer.add_indicators on each of two histories.
IndicatorsCall ==
    /\ pc = "call_rows"
    /\ ta_out' = [status |-> "returned",
                  frames |-> <<indicator_rows(hist_data[1].df),
                               indicator_rows(hist_data[2].df)>>]
    /\ pc' = "called_rows"
    /\ UNCHANGED <<screener, mode, hist_data, idx, ta_results, scoring_results>>

\* Two histories with the same first i bars: the second ends there or goes on
\* in its own way.
InitRows ==
    /\ pc = "call_rows"
    /\ screener = NoScreener
    /\ mode = "daily"
    /\ idx = 0
    /\ ta_results = <<>>
    /\ ta_out = NoResult
    /\ scoring_results = NoResult
    /\ \E shape \in Shapes, after \in Shapes, i \in 1..MaxBars :
       \E n \in {i, MaxBars} :
          hist_data = <<[sym |-> Sym(1), df |-> History(shape, MaxBars, shape, MaxBars)],
                        [sym |-> Sym(2), df |-> History(shape, i, after, n)]>>

NextRows == IndicatorsCall

SpecRows == InitRows /\ [][NextRows]_vars

----------------------------------------------------------------------------
(* A session: one analyzer and one screener serve a sequence of calls.     *)
(* TechnicalAnalyzer has no attribute; the screener has the three that     *)
(* __init__ sets.                                                          *)

\* Mutant of score_universe_self: the window of the horizon just scored is
\* remembered as the window of "daily".
score_universe_self_caching(self, ta, mode_arg) ==
    [self EXCEPT !.vol_window_map =
        [@ EXCEPT !.daily = Get(self.vol_window_map, Lower(mode_arg),
                                Get(DEFAULT_VOL_WINDOW, Lower(mode_arg), 20)) + 1]]

\* The screener after score_universe returned or raised: lines 150-284 and
\* the helpers they call read self.weights, self.sectors and
\* self.vol_window_map and assign to no attribute.
score_universe_self(self, ta, mode_arg) == self

\* Largest number of calls in a session.
MaxCalls == 4

\* Bars handed to add_indicators in a session.
SessionBars == {"strong", "weak", "no_close"}

\* Universes handed to score_universe besides what the analyzer produced.
SessionUniverses ==
    {<<>>,
     Universe1(PlainTargetFrame(Num(10), Num(20)),
               generate_signals(PlainTargetFrame(Num(10), Num(20)))),
     Universe1(PlainTargetFrame(Num(0), Num(20)),
               generate_signals(PlainTargetFrame(Num(0), Num(20))))}

SessionModes == {"daily", "yearly", "Hourly"}

InitSession ==
    /\ pc = "fresh"
    /\ screener = StockScreenerInit
    /\ mode = "daily"
    /\ hist_data = <<>>
    /\ idx = 0
    /\ ta_results = <<>>
    /\ ta_out = NoResult
    /\ scoring_results = NoResult

\* analyzer.add_indicators(df)
CallAddIndicators ==
    /\ idx < MaxCalls
    /\ \E p \in SessionBars :
          LET out == add_indicators(BarsOf(p))
          IN  /\ hist_data' = <<[sym |-> Sym(1), df |-> out.arg]>>
              /\ ta_out' = IF out.status = "raised"
                           THEN [status |-> "raised", error |-> out.error]
                           ELSE [status |-> "returned", frame |-> out.frame]
    /\ pc' = "add_indicators"
    /\ idx' = idx + 1
    /\ UNCHANGED <<screener, mode, ta_results, scoring_results>>

\* analyzer.generate_signals(ta_df) on the frame add_indicators returned
CallGenerateSignals ==
    /\ idx < MaxCalls
    /\ ta_out.status = "returned"
    /\ ta_out' = [status |-> "returned", frame |-> ta_out.frame,
                  signals |-> generate_signals(ta_out.frame)]
    /\ pc' = "generate_signals"
    /\ idx' = idx + 1
    /\ UNCHANGED <<screener, mode, hist_data, ta_results, scoring_results>>

\* screener.score_universe(ta, m) on what the analyzer produced or on
\* another universe
CallScoreUniverse ==
    /\ idx < MaxCalls
    /\ \E m \in SessionModes :
       \E ta \in SessionUniverses \cup
                 (IF ta_out.status = "returned" /\ "signals" \in DOMAIN ta_out
                  THEN {<<[sym |-> Sym(1), df |-> ta_out.frame,
                           signals |-> ta_out.signals]>>}
                  ELSE {}) :
          /\ ta_results' = ta
          /\ mode' = m
          /\ scoring_results' = score_universe(screener, ta, m)
          /\ screener' = score_universe_self(screener, ta, m)
    /\ pc' = "score_universe"
    /\ idx' = idx + 1
    /\ UNCHANGED <<hist_data, ta_out>>

NextSession == CallAddIndicators \/ CallGenerateSignals \/ CallScoreUniverse

SpecSession == InitSession /\ [][NextSession]_vars

----------------------------------------------------------------------------
(* Properties.                                                             *)

Returned == scoring_results.status = "returned"

\* The entries of the returned `all` list.
Entries == IF Returned THEN scoring_results.all ELSE <<>>

\* The ta_results item an entry was computed from.
InfoOf(e) == CHOOSE info \in {ta_results[i] : i \in 1..Len(ta_results)} : info.sym = e.symbol

\* a <= b on floats (False when either is NaN)
Le(a, b) == IsNum(a) /\ IsNum(b) /\ a.v <= b.v

\* C1: every entry score_universe produces has a score in [0, 100]
\* (0..1000 in tenths), whatever the snapshot and the frame hold.
C1_ScoreClamped ==
    \A i \in 1..Len(Entries) : Entries[i].score >= 0 /\ Entries[i].score <= 1000

\* C1 witness: an entry scored from an undefined (NaN) oscillator and an
\* undefined band position.
C1_Witness ==
    /\ Returned
    /\ \E i \in 1..Len(Entries) :
          /\ IsNaN(Get(Entries[i].signals, "rsi", Num(50)))
          /\ IsNaN(Get(Entries[i].signals, "bb_pos", Num(50)))
          /\ Entries[i].score = 720

\* C2 (as claimed): whenever target, target_low and target_high are all not
\* None, target_low <= target <= target_high.
C2_BandOrdered ==
    \A i \in 1..Len(Entries) :
        LET e == Entries[i]
        IN  (~IsNone(e.target) /\ ~IsNone(e.target_low) /\ ~IsNone(e.target_high))
            => /\ Le(e.target_low, Num(e.target.v * VolScale))
               /\ Le(Num(e.target.v * VolScale), e.target_high)

\* Every snapshot of the universe is the one generate_signals derives from
\* the symbol's indicator frame.
DerivedSnapshots ==
    \A i \in 1..Len(ta_results) :
        /\ IsFrame(ta_results[i].df)
        /\ ta_results[i].signals = generate_signals(ta_results[i].df)

\* C5 (as claimed): on snapshots derived from the data, however degenerate
\* the numbers (zero or NaN close, NaN indicators, no history),
\* score_universe does not raise.
C5_DegeneracyNeverRaises ==
    DerivedSnapshots => scoring_results.status # "raised"

\* C8: the reported volatility is the larger of the two reported estimators
\* (the rounded maximum, without the floor), and the band is sized with
\* max(volatility, 0.01).
C8_VolatilityIsMaxBandFloored ==
    \A i \in 1..Len(Entries) :
        LET e == Entries[i]
            df == InfoOf(e).df
            atr_pct == compute_atr_pct(df)
            ret_std == compute_return_std(df, e.vol_window)
            larger == IF atr_pct >= ret_std THEN atr_pct ELSE ret_std
            band == IF larger >= VolScale \div 100 THEN larger ELSE VolScale \div 100
        IN  /\ e.volatility = Round4(larger)
            /\ e.volatility = (IF e.atr_pct >= e.ret_std THEN e.atr_pct ELSE e.ret_std)
            /\ IsNum(e.target) =>
                  /\ e.target_low = Num(e.target.v * (VolScale - band))
                  /\ e.target_high = Num(e.target.v * (VolScale + band))

\* C8 witness: atr_pct 0.002 and ret_std 0.004 give reported 0.004 and a band
\* of 1% around the target.
C8_Witness ==
    /\ Returned
    /\ \E i \in 1..Len(Entries) :
          LET e == Entries[i]
          IN  /\ e.atr_pct = 200 /\ e.ret_std = 400 /\ e.volatility = 400
              /\ IsNum(e.target)
              /\ e.target_low = Num(e.target.v * 99000)
              /\ e.target_high = Num(e.target.v * 101000)

\* run() has left the scoring stage, one way or the other.
Finished == pc \in {"scored", "crashed"}

\* The symbols of the returned `all` list.
ScoredSymbols == {Entries[i].symbol : i \in 1..Len(Entries)}

\* Processing these bars raises nowhere: not in add_indicators, not in
\* generate_signals, not in the per-symbol body of score_universe.
RaisesNowhere(df) ==
    /\ add_indicators_error(df) = ""
    /\ body_error(generate_signals(indicator_frame(df)), indicator_frame(df)) = ""

\* C3 (as claimed): an exception while processing one symbol drops that
\* symbol alone; score_universe returns, and `all` holds exactly the
\* non-empty symbols whose processing raises nowhere.
C3_PerSymbolIsolation ==
    Finished =>
        /\ Returned
        /\ ScoredSymbols =
               {hist_data[i].sym : i \in {j \in 1..Len(hist_data) :
                                             /\ ~NoneOrEmpty(hist_data[j].df)
                                             /\ RaisesNowhere(hist_data[j].df)}}

\* Bars that are non-empty and have the five price columns.
ValidBars(df) == IsFrame(df) /\ df.rows > 0 /\ RawCols \subseteq df.cols

LacksClose(df) == IsFrame(df) /\ df.rows > 0 /\ "Close" \notin df.cols

\* C4 (as claimed): in a batch with a symbol whose bars lack Close, that
\* symbol is not in `all` and every symbol with non-empty valid bars is.
C4_MissingCloseIsolated ==
    (Finished /\ \E i \in 1..Len(hist_data) : LacksClose(hist_data[i].df)) =>
        /\ Returned
        /\ \A i \in 1..Len(hist_data) :
              /\ LacksClose(hist_data[i].df) => hist_data[i].sym \notin ScoredSymbols
              /\ ValidBars(hist_data[i].df) => hist_data[i].sym \in ScoredSymbols

\* C6 (as claimed): on bars with Close, High and Low but no Volume,
\* add_indicators returns a frame whose Volume is zero.
C6_MissingVolumeFabricated ==
    (/\ pc = "called_ta"
     /\ {"Close", "High", "Low"} \subseteq hist_data[1].df.cols
     /\ "Volume" \notin hist_data[1].df.cols)
    => /\ ta_out.status = "returned"
       /\ ta_out.frame.last["Volume"] = Num(0)

\* C7: on bars without the Close column add_indicators raises the
\* missing-Close error of line 28 (whatever else is missing), returns no
\* frame, and the caller's bars are what they were.
C7_MissingCloseFailsFast ==
    [][(pc = "call_ta" /\ "Close" \notin hist_data[1].df.cols)
       => /\ ta_out'.status = "raised"
          /\ ta_out'.error = "ValueError: DataFrame missing Close column"
          /\ "frame" \notin DOMAIN ta_out'
          /\ hist_data' = hist_data]_vars

\* C7 witness: the call was made on bars that lack Close and Volume, and
\* raised the missing-Close error.
C7_Witness ==
    /\ pc = "called_ta"
    /\ "Close" \notin hist_data[1].df.cols
    /\ "Volume" \notin hist_data[1].df.cols
    /\ ta_out.status = "raised"
    /\ ta_out.error = "ValueError: DataFrame missing Close column"

\* The top-N size the horizon table prescribes for the horizon string.
C9_N ==
    CASE mode \in {"daily"} -> 5
      [] mode \in {"weekly", "WEEKLY"} -> 10
      [] mode \in {"monthly", "quarterly"} -> 20
      [] mode \in {"biquarterly"} -> 30
      [] mode \in {"yearly", "Yearly"} -> 50
      [] OTHER -> 5

\* C9: `all` keeps every entry and `top` is its prefix of length min(N, n).
C9_TopIsPrefix ==
    Returned =>
        /\ Len(scoring_results.all) = Len(ta_results)
        /\ Len(scoring_results.top) =
               (IF C9_N <= Len(ta_results) THEN C9_N ELSE Len(ta_results))
        /\ \A i \in 1..Len(scoring_results.top) :
               scoring_results.top[i] = scoring_results.all[i]

\* C9 witness: more than 50 symbols under the weekly horizon: 10 in `top`.
C9_Witness ==
    /\ Returned
    /\ mode = "weekly"
    /\ Len(scoring_results.all) > 50
    /\ Len(scoring_results.top) = 10

\* Position of a symbol in the iteration order of the input mapping.
PosOf(sym) == CHOOSE i \in 1..Len(ta_results) : ta_results[i].sym = sym

\* C10: `all` is ordered by non-increasing score, and entries with equal
\* scores keep the order in which their symbols were iterated.
C10_StableDescending ==
    \A i, j \in 1..Len(Entries) :
        i < j =>
            /\ Entries[i].score >= Entries[j].score
            /\ Entries[i].score = Entries[j].score
                   => PosOf(Entries[i].symbol) < PosOf(Entries[j].symbol)

\* C10 witness: a universe with ties and with a better symbol behind a
\* worse one, so that the sort moved entries.
C10_Witness ==
    /\ Returned
    /\ \E i, j \in 1..Len(Entries) :
          i < j /\ Entries[i].score = Entries[j].score
    /\ \E i, j \in 1..Len(Entries) :
          i < j /\ PosOf(Entries[i].symbol) > PosOf(Entries[j].symbol)

\* The volatility _volatility_for_mode returns for an entry's frame: the
\* larger estimator, neither floored nor rounded.
RawVol(e) ==
    LET df == InfoOf(e).df
        atr_pct == compute_atr_pct(df)
        ret_std == compute_return_std(df, e.vol_window)
    IN  IF atr_pct >= ret_std THEN atr_pct ELSE ret_std

\* C11: the risk tier of every entry is High if score < 40 or volatility >
\* 0.08, else Medium if volatility > 0.04 or score < 65, else Low, on the
\* final score and the volatility without the 1% floor.
C11_RiskTier ==
    \A i \in 1..Len(Entries) :
        LET e == Entries[i]
            vol == RawVol(e)
        IN  e.risk =
                (IF e.score < 400 \/ 100 * vol > 8 * VolScale THEN "High"
                 ELSE IF 100 * vol > 4 * VolScale \/ e.score < 650 THEN "Medium"
                 ELSE "Low")

\* C11 witness: a symbol scoring exactly 65 whose volatility is positive and
\* below the 1% floor is rated Low.
C11_Witness ==
    /\ Returned
    /\ \E i \in 1..Len(Entries) :
          LET e == Entries[i]
          IN  /\ e.score = 650
              /\ RawVol(e) > 0 /\ RawVol(e) < VolScale \div 100
              /\ e.risk = "Low"

\* C12: for every entry with a defined last price, target = resistance x 1.03
\* when the resistance exists (not missing, not NaN, not zero) and is strictly
\* above the last price, target = last price x 1.05 in every other case, and
\* expected_return_pct is (target / last_price - 1) x 100 at the two decimals
\* the entry reports (off by at most half of 0.01).
C12_TargetRule ==
    \A i \in 1..Len(Entries) :
        LET e == Entries[i]
            last == e.last_price
            res == Get(e.signals, "resistance_20", None)
            exact == (e.target.v - 100 * last.v) * 100
        IN  IsNum(last) =>
                /\ e.target =
                       (IF IsNum(res) /\ res.v # 0 /\ res.v > last.v
                        THEN Num(103 * res.v) ELSE Num(105 * last.v))
                /\ IsNum(e.expected_return_pct)
                /\ 2 * Abs(e.expected_return_pct.v * last.v - exact) <= Abs(last.v)

\* C12 witness: last price 3 under resistance 10 gives target 10.30 and an
\* expected return of 243.33 percent.
C12_Witness ==
    /\ Returned
    /\ \E i \in 1..Len(Entries) :
          /\ Entries[i].last_price = Num(3)
          /\ Get(Entries[i].signals, "resistance_20", None) = Num(10)
          /\ Entries[i].target = Num(1030)
          /\ Entries[i].expected_return_pct = Num(24333)

\* generate_signals has returned a non-empty snapshot.
HasSnapshot ==
    /\ pc \in {"called_ta", "called_gs"}
    /\ ta_out.status = "returned"
    /\ ta_out.signals # <<>>

\* The number of buy votes a snapshot shows.
Votes(g) ==
      (IF g.macd_signal = "bullish_crossover" THEN 1 ELSE 0)
    + (IF g.rsi_signal \in {"oversold", "strong"} THEN 1 ELSE 0)
    + (IF g.trend = "up" THEN 1 ELSE 0)
    + (IF g.volume_surge THEN 1 ELSE 0)

\* C13: the recommendation hint of a non-empty snapshot is STRONG BUY for 3
\* or 4 buy votes, BUY for 2, HOLD for 1 and SELL for 0.
C13_HintFromVotes ==
    HasSnapshot =>
        ta_out.signals.recommendation =
            (CASE Votes(ta_out.signals) \in {3, 4} -> "STRONG BUY"
               [] Votes(ta_out.signals) = 2 -> "BUY"
               [] Votes(ta_out.signals) = 1 -> "HOLD"
               [] Votes(ta_out.signals) = 0 -> "SELL")

\* C13 witness: exactly three votes (no volume surge) give STRONG BUY.
C13_Witness ==
    /\ HasSnapshot
    /\ ta_out.signals.macd_signal = "bullish_crossover"
    /\ ta_out.signals.rsi_signal = "oversold"
    /\ ta_out.signals.trend = "up"
    /\ ~ta_out.signals.volume_surge
    /\ ta_out.signals.recommendation = "STRONG BUY"

\* The crossover state the claim prescribes for (previous, current).
C14_State(prev, cur) ==
    IF ~IsNum(prev) \/ ~IsNum(cur) THEN "unknown"
    ELSE IF prev.v < 0 /\ cur.v > 0 THEN "bullish_crossover"
    ELSE IF prev.v > 0 /\ cur.v < 0 THEN "bearish_crossover"
    ELSE "neutral"

\* C14: the crossover state of a snapshot is determined by the crossover
\* distance of the last row and of the row before it (the last row itself in
\* a one-row frame): negative to positive is bullish_crossover, positive to
\* negative is bearish_crossover, any other defined pair is neutral, and an
\* undefined value gives unknown.
C14_CrossoverState ==
    HasSnapshot =>
        LET f == ta_out.frame
            cur == f.last["macd_diff"]
            prev == IF f.rows = 1 THEN cur ELSE f.prev["macd_diff"]
        IN  ta_out.signals.macd_signal = C14_State(prev, cur)

\* C14 witness: a frame of several rows whose previous crossover distance
\* is undefined and whose current one is positive is unknown.
C14_Witness ==
    /\ HasSnapshot
    /\ ta_out.frame.rows > 1
    /\ IsNaN(ta_out.frame.prev["macd_diff"])
    /\ Gt(ta_out.frame.last["macd_diff"], 0)
    /\ ta_out.signals.macd_signal = "unknown"

\* The entry of the returned `all` list for a symbol.
EntryOf(sym) == CHOOSE e \in {Entries[i] : i \in 1..Len(Entries)} : e.symbol = sym

\* The oscillator sub-score (in tenths) behind the score of an entry whose
\* other five inputs are those of PlainFrame: neutral crossover 8, sideways
\* trend 8, no surge 4.5, flat momentum 6 and mid-band 5 points, 31.5 in all.
C15_SubScore(e) == (e.score - 315) \div 20

\* C15: of two symbols alike but for oscillator values a <= b, the one with
\* a has the sub-score that is not smaller, and the sub-score is 1.0 below
\* 30, 0.8 below 45, 0.6 below 55, 0.3 below 70 and 0.1 from 70 upward.
C15_OscillatorMonotone ==
    (Returned /\ Len(ta_results) = 2) =>
        LET ea == EntryOf(Sym(1))
            eb == EntryOf(Sym(2))
            Table(x) == IF x < 30 THEN 10 ELSE IF x < 45 THEN 8 ELSE IF x < 55 THEN 6
                        ELSE IF x < 70 THEN 3 ELSE 1
        IN  /\ ea.signals.rsi.v <= eb.signals.rsi.v
            /\ C15_SubScore(ea) >= C15_SubScore(eb)
            /\ \A e \in {ea, eb} :
                   /\ e.score = 315 + 20 * C15_SubScore(e)
                   /\ C15_SubScore(e) = Table(e.signals.rsi.v)

\* C15 witness: oscillator 25 gives sub-score 1.0 and oscillator 72 gives 0.1.
C15_Witness ==
    /\ Returned
    /\ Len(ta_results) = 2
    /\ EntryOf(Sym(1)).signals.rsi = Num(25) /\ C15_SubScore(EntryOf(Sym(1))) = 10
    /\ EntryOf(Sym(2)).signals.rsi = Num(72) /\ C15_SubScore(EntryOf(Sym(2))) = 1

\* An entry whose five inputs other than the band position are plain:
\* oscillator 50 (12 points), neutral crossover (8), sideways trend (8), no
\* volume surge (4.5) and a momentum mean of 0 (6): 38.5 points in all.
PlainButBand(e) ==
    LET g == e.signals
        df == InfoOf(e).df
    IN  /\ DOMAIN g # {}
        /\ Get(g, "rsi", NaN) = Num(50)
        /\ g.macd_signal = "neutral"
        /\ g.trend = "sideways"
        /\ ~g.volume_surge
        /\ IsFrame(df)
        /\ <<Last(df, "mom_5"), Last(df, "mom_20")>> \in {<<NaN, NaN>>, <<Num(0), Num(0)>>}

\* C16 (as claimed): for every defined band position p of the snapshot, zero
\* and negative p included, the band position contributes 10 x s points with
\* s = 1.0 if p < 0.2, 0.8 if p < 0.4, 0.5 if p < 0.6, 0.2 if p < 0.8, else 0.
C16_BandContribution ==
    \A i \in 1..Len(Entries) :
        LET e == Entries[i]
            p == Get(e.signals, "bb_pos", None)
            s == IF p.v < 20 THEN 10 ELSE IF p.v < 40 THEN 8 ELSE IF p.v < 60 THEN 5
                 ELSE IF p.v < 80 THEN 2 ELSE 0
        IN  (PlainButBand(e) /\ IsNum(p)) => e.score = 385 + 10 * s

\* An entry whose five inputs other than the momentum are plain: oscillator
\* 50 (12 points), neutral crossover (8), sideways trend (8), no volume surge
\* (4.5) and band position 0.5 (5): 37.5 points in all.
PlainButMomentum(e) ==
    LET g == e.signals
    IN  /\ DOMAIN g # {}
        /\ Get(g, "rsi", NaN) = Num(50)
        /\ g.macd_signal = "neutral"
        /\ g.trend = "sideways"
        /\ ~g.volume_surge
        /\ Get(g, "bb_pos", NaN) = Num(50)

\* The frame of the entry holds both momentum ratios.
HasBothRatios(e) ==
    LET df == InfoOf(e).df
    IN  IsFrame(df) /\ df.rows > 0 /\ {"mom_5", "mom_20"} \subseteq df.cols

\* The momentum ratio the entry was scored from: 0.0 stands in for a ratio
\* the frame does not hold.
RatioOf(e, col) ==
    LET df == InfoOf(e).df
    IN  IF IsFrame(df) /\ df.rows > 0 /\ col \in df.cols THEN df.last[col] ELSE Num(0)

\* The sub-score (in tenths) of twice a momentum mean (in 1/10000).
C17_Table(mean2) ==
    IF mean2 > 1000 THEN 10 ELSE IF mean2 > 200 THEN 7 ELSE IF mean2 > -200 THEN 4 ELSE 1

\* C17 (as claimed): the momentum sub-score is that of the mean of the two
\* ratios in which a NaN ratio counts as 0: > 0.05 gives 1.0, > 0.01 gives
\* 0.7, > -0.01 gives 0.4, otherwise 0.1, of 15 points.
C17_MomentumNaNAsZero ==
    \A i \in 1..Len(Entries) :
        LET e == Entries[i]
            m5 == Last(InfoOf(e).df, "mom_5")
            m20 == Last(InfoOf(e).df, "mom_20")
            mean2 == (IF IsNaN(m5) THEN 0 ELSE m5.v) + (IF IsNaN(m20) THEN 0 ELSE m20.v)
        IN  (PlainButMomentum(e) /\ HasBothRatios(e))
                => e.score = 375 + 15 * C17_Table(mean2)

\* C17 (amended): the momentum sub-score is that of the mean of the two
\* ratios with a NaN ratio left out (0.0 standing in for a ratio the frame
\* does not hold), and of 0 when both are NaN: > 0.05 gives 1.0, > 0.01 gives
\* 0.7, > -0.01 gives 0.4, otherwise 0.1, of 15 points.
C17_MomentumNaNSkipped ==
    \A i \in 1..Len(Entries) :
        LET e == Entries[i]
            m5 == RatioOf(e, "mom_5")
            m20 == RatioOf(e, "mom_20")
            mean2 == IF IsNaN(m5) /\ IsNaN(m20) THEN 0
                     ELSE IF IsNaN(m20) THEN 2 * m5.v
                     ELSE IF IsNaN(m5) THEN 2 * m20.v
                     ELSE m5.v + m20.v
        IN  PlainButMomentum(e) => e.score = 375 + 15 * C17_Table(mean2)

\* C17 witness: a 5-day momentum of 0.06 with an undefined 20-day momentum
\* earns the full 15 points.
C17_Witness ==
    /\ Returned
    /\ \E i \in 1..Len(Entries) :
          /\ PlainButMomentum(Entries[i])
          /\ HasBothRatios(Entries[i])
          /\ Last(InfoOf(Entries[i]).df, "mom_5") = Num(600)
          /\ IsNaN(Last(InfoOf(Entries[i]).df, "mom_20"))
          /\ Entries[i].score = 375 + 150

\* The sub-scores (in tenths) of an entry each of whose six inputs is the
\* best or the worst of its table: oscillator 25 or 72, bullish or bearish
\* crossover, trend up or down, volume surge or none, both momentum ratios
\* 0.06 or -0.02, band position 0.15 or 0.8.
C18_Extreme(e) ==
    LET g == e.signals
        df == InfoOf(e).df
    IN  /\ DOMAIN g # {} /\ IsFrame(df)
        /\ Get(g, "rsi", NaN) \in {Num(25), Num(72)}
        /\ g.macd_signal \in {"bullish_crossover", "bearish_crossover"}
        /\ g.trend \in {"up", "down"}
        /\ Get(g, "bb_pos", NaN) \in {Num(15), Num(80)}
        /\ <<Last(df, "mom_5"), Last(df, "mom_20")>>
               \in {<<Num(600), Num(600)>>, <<Num(-200), Num(-200)>>}

C18_Sum(e) ==
    LET g == e.signals
        df == InfoOf(e).df
    IN    20 * (IF g.rsi = Num(25) THEN 10 ELSE 1)
        + 20 * (IF g.macd_signal = "bullish_crossover" THEN 10 ELSE 0)
        + 20 * (IF g.trend = "up" THEN 10 ELSE 0)
        + 15 * (IF g.volume_surge THEN 10 ELSE 3)
        + 15 * (IF Last(df, "mom_5") = Num(600) THEN 10 ELSE 1)
        + 10 * (IF g.bb_pos = Num(15) THEN 10 ELSE 0)

\* The symbol of the end-to-end scenario.
C18_Perfect(e) ==
    /\ C18_Extreme(e)
    /\ e.signals.rsi = Num(25) /\ e.signals.macd_signal = "bullish_crossover"
    /\ e.signals.trend = "up" /\ e.signals.volume_surge
    /\ Last(InfoOf(e).df, "mom_5") = Num(600) /\ e.signals.bb_pos = Num(15)

\* C18: the weights are 20, 20, 20, 15, 15, 10 and sum to 100; the score is
\* the sum of weight x sub-score over the six inputs; and the symbol with
\* oscillator 25, bullish crossover, trend up, volume surge, momentum 0.06
\* and band position 0.15 scores exactly 100 with the hint STRONG BUY.
C18_WeightedSum ==
    /\ screener.weights =
           [rsi |-> 20, macd |-> 20, ma_trend |-> 20, volume |-> 15,
            momentum |-> 15, bollinger |-> 10]
    /\ screener.weights.rsi + screener.weights.macd + screener.weights.ma_trend
         + screener.weights.volume + screener.weights.momentum
         + screener.weights.bollinger = 100
    /\ \A i \in 1..Len(Entries) :
           LET e == Entries[i]
           IN  /\ C18_Extreme(e) => e.score = C18_Sum(e)
               /\ C18_Perfect(e) =>
                      e.score = 1000 /\ e.signals.recommendation = "STRONG BUY"

\* C18 witness: the symbol of the end-to-end scenario was scored 100.
C18_Witness ==
    /\ Returned
    /\ \E i \in 1..Len(Entries) :
          /\ C18_Perfect(Entries[i])
          /\ Entries[i].score = 1000
          /\ Entries[i].signals.recommendation = "STRONG BUY"

\* The phrases the claim prescribes for a snapshot, in order.  The code has
\* no wording for the bearish crossover; it is written here like the bullish.
C19_Phrases(g) ==
    LET macd == Get(g, "macd_signal", "unknown")
        rsi_sig == Get(g, "rsi_signal", "neutral")
        trend == Get(g, "trend", "unknown")
        vol_surge == Get(g, "volume_surge", FALSE)
    IN  (IF macd = "bullish_crossover" THEN <<"MACD bullish crossover">>
         ELSE IF macd = "bearish_crossover" THEN <<"MACD bearish crossover">>
         ELSE <<>>)
        \o (IF rsi_sig \in {"oversold", "strong"} THEN <<"RSI " \o rsi_sig>> ELSE <<>>)
        \o (IF trend # "unknown" THEN <<"Trend: " \o trend>> ELSE <<>>)
        \o (IF vol_surge THEN <<"Volume surge">> ELSE <<>>)

\* C19 (as claimed): the rationale is the first two applicable phrases
\* joined by "; ", in the order crossover (bullish or bearish), oscillator
\* state (oversold or strong), trend (not unknown), volume surge; it is "No
\* strong technical signals" exactly when none of the four applies.
C19_Rationale ==
    \A i \in 1..Len(Entries) :
        LET e == Entries[i]
            parts == C19_Phrases(e.signals)
        IN  /\ (e.rationale = "No strong technical signals") <=> (parts = <<>>)
            /\ parts # <<>> =>
                   e.rationale = (IF Len(parts) = 1 THEN parts[1]
                                  ELSE parts[1] \o "; " \o parts[2])

\* C20: the `signals` field of every entry has the fields and the values of
\* the snapshot the input mapping holds for its symbol, whatever the horizon
\* and the rest of the entry.
C20_SnapshotUnchanged ==
    \A i \in 1..Len(Entries) :
        LET e == Entries[i]
            given == InfoOf(e).signals
        IN  /\ DOMAIN e.signals = DOMAIN given
            /\ \A k \in DOMAIN given : e.signals[k] = given[k]

\* C20 witness: under the yearly horizon, an entry rated High with a target
\* above its price carries the hint SELL it was given.
C20_Witness ==
    /\ Returned
    /\ mode = "yearly"
    /\ \E i \in 1..Len(Entries) :
          /\ Entries[i].risk = "High"
          /\ IsNum(Entries[i].target)
          /\ InfoOf(Entries[i]).signals.recommendation = "SELL"
          /\ Entries[i].signals.recommendation = "SELL"

\* The first i bars of two histories are the same bars.
AgreeUpTo(x, y, i) ==
    /\ i <= Len(x)
    /\ i <= Len(y)
    /\ SubSeq(x, 1, i) = SubSeq(y, 1, i)

\* C21: whenever two histories agree on their first i bars, the frames
\* add_indicators returns for them have the same first i rows: no cell of a
\* row depends on a later bar.
C21_NoLookAhead ==
    pc = "called_rows" =>
        \A i \in 1..MaxBars :
            AgreeUpTo(hist_data[1].df, hist_data[2].df, i) =>
                SubSeq(ta_out.frames[1], 1, i) = SubSeq(ta_out.frames[2], 1, i)

\* Two histories part after a bar at which every indicator is defined, the
\* rows up to that bar are the same and the next rows differ.
C21_Witness ==
    /\ pc = "called_rows"
    /\ \E i \in 51..(MaxBars - 1) :
          /\ AgreeUpTo(hist_data[1].df, hist_data[2].df, i)
          /\ Len(hist_data[2].df) > i
          /\ hist_data[1].df[i + 1] # hist_data[2].df[i + 1]
          /\ \A c \in IndicatorCols \ {"trend"} : ~IsNaN(ta_out.frames[1][i][c])
          /\ ta_out.frames[1][i]["trend"] # "unknown"
          /\ SubSeq(ta_out.frames[1], 1, i) = SubSeq(ta_out.frames[2], 1, i)
          /\ ta_out.frames[1][i + 1] # ta_out.frames[2][i + 1]

\* C22: a run started with a horizon that is none of the six names after
\* lower-casing is rejected at once.  It is only ever at its start or
\* rejected, and when rejected no screener was built, no history fetched, no
\* symbol analysed and nothing scored; every later stage of a run, scoring
\* and reporting included, works on one of the six names.
C22_RejectedBeforeWork ==
    LET six == {"daily", "weekly", "monthly", "quarterly", "biquarterly", "yearly"}
    IN  /\ Lower(mode) \notin six => pc \in {"start", "rejected"}
        /\ pc = "rejected" =>
              /\ Lower(mode) \notin six
              /\ screener = NoScreener
              /\ hist_data = <<>>
              /\ idx = 0
              /\ ta_results = <<>>
              /\ ta_out = NoResult
              /\ scoring_results = NoResult
        /\ pc \notin {"start", "rejected"} => mode \in six

\* A run with the horizon "Hourly" has been rejected.
C22_Witness == pc = "rejected" /\ mode = "Hourly"

C25_SumWithinRange ==
    Returned =>
        \A i \in 1..Len(Entries) :
            LET e == Entries[i]
                info == InfoOf(e)
                sum == weighted_sum(screener, signals_of(info), info.df)
            IN  /\ sum >= 80
                /\ sum <= 1000
                /\ final_score(sum) = sum
                /\ e.score = sum
                /\ e.score >= 80

\* An entry with the lowest sub-score everywhere (overbought, bearish
\* crossover, down trend, no surge, falling, at the upper band) scores 8.0.
C25_Witness ==
    /\ Returned
    /\ \E i \in 1..Len(Entries) :
          LET g == Entries[i].signals
          IN  /\ Entries[i].score = 80
              /\ Get(g, "rsi", Num(50)) = Num(72)
              /\ Get(g, "macd_signal", "neutral") = "bearish_crossover"
              /\ Get(g, "trend", "unknown") = "down"
              /\ ~Get(g, "volume_surge", FALSE)

PlainButOscillator(e) ==
    LET g == e.signals
        df == InfoOf(e).df
    IN  /\ IsFrame(df)
        /\ g = generate_signals(df)
        /\ DOMAIN g # {}
        /\ g.macd_signal = "neutral"
        /\ g.trend = "sideways"
        /\ ~g.volume_surge
        /\ HasBothRatios(e)
        /\ IsNaN(Last(df, "mom_5"))
        /\ IsNaN(Last(df, "mom_20"))
        /\ Get(g, "bb_pos", NaN) = Num(50)

\* The oscillator sub-score (in tenths) such an entry was given.
OscillatorSubScore(e) == (e.score - 315) \div 20

\* The sub-score (in tenths) the claim pairs with each state.
C27_ScoreOfState(state) ==
    CASE state = "oversold" -> 10
      [] state = "weak" -> 8
      [] state = "neutral" -> 6
      [] state = "strong" -> 3
      [] state = "overbought" -> 1

\* C27 (as claimed): the state of the snapshot and the sub-score of the entry
\* are of the same band for every oscillator value: oversold with 1.0, weak
\* with 0.8, neutral with 0.6, strong with 0.3, overbought with 0.1.
C27_StateMatchesSubScore ==
    \A i \in 1..Len(Entries) :
        LET e == Entries[i]
        IN  PlainButOscillator(e) =>
                /\ e.score = 315 + 20 * OscillatorSubScore(e)
                /\ OscillatorSubScore(e) = C27_ScoreOfState(e.signals.rsi_signal)

\* C27 (amended): the state and the sub-score are of the same band for every
\* defined oscillator value other than 55 and 70; at 55 the state is neutral
\* with sub-score 0.3, at 70 it is strong with sub-score 0.1, and an
\* undefined value has the state neutral with sub-score 0.1.
C27_StateMatchesOffBoundary ==
    \A i \in 1..Len(Entries) :
        LET e == Entries[i]
            rsi == e.signals.rsi
            state == e.signals.rsi_signal
            sub == OscillatorSubScore(e)
        IN  PlainButOscillator(e) =>
                /\ e.score = 315 + 20 * sub
                /\ (IsNum(rsi) /\ rsi.v \notin {55, 70}) => sub = C27_ScoreOfState(state)
                /\ rsi = Num(55) => state = "neutral" /\ sub = 3
                /\ rsi = Num(70) => state = "strong" /\ sub = 1
                /\ IsNaN(rsi) => state = "neutral" /\ sub = 1

\* C27 witness: an oscillator of exactly 70 is strong, a buy vote that makes
\* the hint HOLD, and is given the lowest sub-score.
C27_Witness ==
    /\ Returned
    /\ \E i \in 1..Len(Entries) :
          LET e == Entries[i]
          IN  /\ PlainButOscillator(e)
              /\ e.signals.rsi = Num(70)
              /\ e.signals.rsi_signal = "strong"
              /\ e.signals.recommendation = "HOLD"
              /\ OscillatorSubScore(e) = 1
              /\ e.score = 335

\* C28: an entry scored from the snapshot generate_signals derives, whose
\* recommendation hint is SELL, has no buy vote, a score of at most 61.5 and
\* a risk tier other than Low.
C28_SellNeverLowRisk ==
    (Returned /\ DerivedSnapshots) =>
        \A i \in 1..Len(Entries) :
            LET e == Entries[i]
            IN  (DOMAIN e.signals # {} /\ e.signals.recommendation = "SELL") =>
                    /\ Votes(e.signals) = 0
                    /\ e.score <= 615
                    /\ e.risk # "Low"

\* A SELL entry with the best sub-scores no vote rules out (weak oscillator,
\* neutral crossover, sideways trend, no surge, momentum 0.06, band position
\* 0.15) scores 61.5 and is rated Medium.
C28_Witness ==
    /\ Returned
    /\ DerivedSnapshots
    /\ \E i \in 1..Len(Entries) :
          LET e == Entries[i]
          IN  /\ DOMAIN e.signals # {}
              /\ e.signals.recommendation = "SELL"
              /\ e.signals.rsi_signal = "weak"
              /\ e.score = 615
              /\ e.risk = "Medium"

====
